---- MODULE Spec2Model ----
(***************************************************************************)
(* The KICS scan service (pkg/kics/service.go): the bounded reader          *)
(* getContent, the two sinks StartScan hands to the Source Provider,        *)
(* saveToFile, and the Inspect / SaveVulnerabilities tail of StartScan;     *)
(* and the Helm line detector, DetectKindLine.DetectLine.                   *)
(***************************************************************************)
EXTENDS Integers, Sequences, FiniteSets, TLC

(***************************************************************************)
(* Bounds of the model.                                                     *)
(***************************************************************************)
\* files the Source Provider's walk delivers
NumFiles == 2
\* documents the Parser returns in one scan
MaxDocs == 2
\* rendered files Resolver.Resolve returns for one chart
MaxRendered == 2
\* lines of one rendered sub-document given to DetectLine
MaxBody == 3

(***************************************************************************)
(* Program constants.                                                       *)
(***************************************************************************)
\* data := make([]byte, 1048576): the size of one Read buffer
ChunkSize == 1048576
\* maxSizeMB := 5
MaxSizeMB == 5

Workers == {1, 2}
Files == 1 .. NumFiles

VARIABLES
    \* ---- getContent, one call taken step by step (service.go 148-168) ----
    rc,          \* the Read results the reader has delivered so far
    gc,          \* getContent's locals: content, maxSizeMB, and what it returned
    \* ---- StartScan (service.go 52-142) ----
    scanPc,      \* where StartScan is: "sources", "inspect", "saveVulns", "done"
    scanRet,     \* what StartScan returned ("none" while it runs)
    pool,        \* the Source Provider's worker tasks
    walk,        \* the next file the Source Provider's walk delivers
    route,       \* per file: the sink the Source Provider called for it
    reader,      \* per file: the Read results of the reader handed to the parse sink
    sinkRet,     \* per file: what its sink returned ("none" before it returns)
    log,         \* per file: the calls its sink made, and the errors it met
    outcome,     \* what GetSources, Inspect and SaveVulnerabilities returned
    files,       \* var files model.FileMetadatas
    storage,     \* the FileMetadata records Storage holds
    tracker,     \* the Tracker's two counters
    nextID,      \* uuid.New(): the next unused ID
    t,           \* per worker task: the locals of the sink it runs
    inspectArg,  \* the files Inspect was called with
    vulnerabilities,
    savedVulns,  \* what Storage.SaveVulnerabilities stored
    \* ---- the caller ----
    ctx,         \* StartScan's context: "active" or "cancelled"
    \* ---- the Line Detector ----
    dl           \* one call of DetectLine: its arguments and what it returned

gcVars == <<rc, gc>>
scanVars ==
    <<scanPc, scanRet, pool, walk, route, reader, sinkRet, log, outcome, files,
      storage, tracker, nextID, t, inspectArg, vulnerabilities, savedVulns>>
vars == <<gcVars, scanVars, ctx, dl>>

(***************************************************************************)
(* Helpers on sequences of chunk lengths.                                   *)
(***************************************************************************)
RECURSIVE Sum(_)
Sum(s) == IF s = <<>> THEN 0 ELSE Head(s) + Sum(Tail(s))

RECURSIVE Rep(_, _)
Rep(x, k) == IF k <= 0 THEN <<>> ELSE <<x>> \o Rep(x, k - 1)

RECURSIVE Delivered(_)
\* The number of bytes a sequence of Read results carries.
Delivered(reads) ==
    IF reads = <<>> THEN 0 ELSE Head(reads).n + Delivered(Tail(reads))

RECURSIVE Chunks(_)
\* The chunks of the Read results that carried bytes, in order.
Chunks(reads) ==
    IF reads = <<>> THEN <<>>
    ELSE (IF Head(reads).n > 0 THEN <<Head(reads).n>> ELSE <<>>)
             \o Chunks(Tail(reads))

(***************************************************************************)
(* io.Reader: a Read returns n bytes (0 <= n <= len(data)) and an error:    *)
(* nil, io.EOF or another error.  A reader may return its last bytes        *)
(* together with io.EOF.                                                    *)
(***************************************************************************)
ReadSizes == {1, ChunkSize - 1, ChunkSize}
ReadResults ==
    [n : ReadSizes, err : {"nil"}]
        \cup [n : {0, 1, ChunkSize}, err : {"EOF"}]
        \cup [n : {0}, err : {"ERR"}]

(***************************************************************************)
(* getContent (service.go 148-168).  A byte slice is the sequence of the    *)
(* chunks appended to it, each chunk by its length.                         *)
(***************************************************************************)
\* lines 149-151
getContentInit ==
    [content |-> <<>>, maxSizeMB |-> MaxSizeMB, ret |-> "running", out |-> <<>>]

\* line 153
limitExceeded(g) == g.maxSizeMB < 0

\* lines 153-155: return &[]byte{}, errors.New("file size limit exceeded")
getContentLimit(g) == [g EXCEPT !.ret = "errSize", !.out = <<>>]

\* a bug: content = data[:n]
appendDataLast(c, n) == IF n > 0 THEN <<n>> ELSE c

\* line 164: content = append(content, data[:n]...)
appendData(c, n) == IF n > 0 THEN Append(c, n) ELSE c

\* lines 156-165, and 167 after the break: what one Read result does
getContentRead(g, rd) ==
    IF rd.err = "EOF" THEN [g EXCEPT !.ret = "nil", !.out = g.content]
    ELSE IF rd.err # "nil" THEN [g EXCEPT !.ret = "errRead", !.out = <<>>]
    ELSE [g EXCEPT !.content = appendData(g.content, rd.n),
                   !.maxSizeMB = g.maxSizeMB - 1]

RECURSIVE getContentLoop(_, _)
\* lines 152-166 over a reader that delivers `reads` and then io.EOF
getContentLoop(g, reads) ==
    IF g.ret # "running" THEN g
    ELSE IF limitExceeded(g) THEN getContentLimit(g)
    ELSE IF reads = <<>> THEN getContentRead(g, [n |-> 0, err |-> "EOF"])
    ELSE getContentLoop(getContentRead(g, Head(reads)), Tail(reads))

getContent(reads) == getContentLoop(getContentInit, reads)

\* ---- getContent step by step ----
GCLimit ==
    /\ gc.ret = "running"
    /\ limitExceeded(gc)
    /\ gc' = getContentLimit(gc)
    /\ UNCHANGED <<rc, scanVars, ctx, dl>>

GCRead ==
    /\ gc.ret = "running"
    /\ ~limitExceeded(gc)
    /\ \E rd \in ReadResults :
          /\ rc' = Append(rc, rd)
          /\ gc' = getContentRead(gc, rd)
    /\ UNCHANGED <<scanVars, ctx, dl>>

\* The caller cancels the context while getContent runs. getContent has no
\* context parameter: nothing of its state changes.
Cancel ==
    /\ ctx = "active"
    /\ gc.ret = "running"
    /\ ctx' = "cancelled"
    /\ UNCHANGED <<gcVars, scanVars, dl>>

(***************************************************************************)
(* The readers the Source Provider hands to the parse sink: each is the     *)
(* sequence of Read results it delivers, ending with io.EOF or an error.    *)
(***************************************************************************)
Full == [n |-> ChunkSize, err |-> "nil"]
Short == [n |-> 1, err |-> "nil"]
Readers ==
    { <<Short, [n |-> 0, err |-> "EOF"]>>,
      Rep(Full, MaxSizeMB) \o <<[n |-> 1, err |-> "EOF"]>>,
      Rep(Full, MaxSizeMB + 1) \o <<[n |-> 0, err |-> "EOF"]>>,
      Rep(Short, MaxSizeMB + 1) \o <<[n |-> 0, err |-> "EOF"]>>,
      <<[n |-> 0, err |-> "ERR"]>> }

(***************************************************************************)
(* The collaborators' results.                                              *)
(***************************************************************************)
\* Parser.Parse: documents, kind, error.  A document is named by the file,
\* the rendered file (0 when the file was not rendered) and its position.
ParseResults(f, r, left) ==
    { [documents |-> [i \in 1 .. k |-> [file |-> f, rfile |-> r, idx |-> i]],
       kind |-> "TERRAFORM", err |-> "nil"] : k \in 0 .. left }
        \cup { [documents |-> <<>>, kind |-> "COMMON", err |-> "err"] }

\* Resolver.GetType
FileKinds == {"COMMON", "HELM"}

\* The marker the Helm resolver injects: "# KICS_HELM_ID_<n>:"
SplitIDs ==
    <<"# KICS_HELM_ID_0:", "# KICS_HELM_ID_1:", "# KICS_HELM_ID_2:",
      "# KICS_HELM_ID_3:">>

\* The IDInfo of the r-th rendered file: none for the first, as in the values
\* TestHelm_Resolve expects, and a map of line numbers (as pairs) for the
\* others, as in the Helm metadata of test_dup_values
IDInfos == <<{}, {<<0, 0>>}, {<<0, 0>>}, {<<0, 0>>}>>

\* a bug: every rendered file of a chart gets the first marker
RenderedFileSameID(f, r) ==
    [SplitID |-> SplitIDs[1],
     FileName |-> <<f, r>>,
     Content |-> <<3, r>>,
     OriginalData |-> <<2, r>>,
     IDInfo |-> IDInfos[r]]

\* One model.RenderedFile of chart f: the r-th template, its rendered text and
\* the template's text (byte slices, as chunk lengths)
RenderedFile(f, r) ==
    [SplitID |-> SplitIDs[r],
     FileName |-> <<f, r>>,
     Content |-> <<3, r>>,
     OriginalData |-> <<2, r>>,
     IDInfo |-> IDInfos[r]]

\* Resolver.Resolve: model.RenderedFiles, error
ResolveResults(f) ==
    { [File |-> [r \in 1 .. k |-> RenderedFile(f, r)], err |-> "nil"] :
        k \in 0 .. MaxRendered }
        \cup { [File |-> <<>>, err |-> "err"] }

Errors == {"nil", "err"}
VulnLists == {<<>>, <<"vulnerability">>}

(***************************************************************************)
(* The Line Detector (spec 4.5), for Helm files.  The text of a file is the *)
(* sequence of its lines; a line is its nesting level (by indentation) and  *)
(* its textual key.  A search key is the number of the Helm marker of its   *)
(* first segment and the segments after it; a segment is a bare key or      *)
(* key=value.                                                               *)
(***************************************************************************)
Ln(ind, key) == [ind |-> ind, key |-> key]

\* the marker line "# KICS_HELM_ID_<n>:" and the document separator "---"
Marker(n) == Ln(0, SplitIDs[n + 1])
Separator == Ln(0, "---")
IsMarker(line) == \E i \in DOMAIN SplitIDs : line.key = SplitIDs[i]

Key(key) == [key |-> key, value |-> FALSE]
KeyValue(key) == [key |-> key, value |-> TRUE]

\* The least member of a non-empty set of line numbers.
First(S) == CHOOSE i \in S : \A j \in S : i <= j

\* step 2: the line holding the split marker of the search key's first segment
markerLine(lines, id) ==
    First({i \in DOMAIN lines : lines[i] = Marker(id)})

\* step 3, nesting by indentation: the lines nested under line p
scope(lines, p) ==
    {i \in DOMAIN lines :
        /\ i > p
        /\ \A j \in (p + 1) .. i : lines[j].ind > lines[p].ind}

\* step 3: the lines a segment may match.  With no resolved parent (parent =
\* 0) these are the top-level lines after the cursor; under a resolved parent
\* they are the parent's children.
candidates(lines, st, seg) ==
    IF st.parent = 0
    THEN {i \in DOMAIN lines :
            i > st.cur /\ lines[i].ind = 0 /\ lines[i].key = seg.key}
    ELSE {i \in scope(lines, st.parent) :
            lines[i].ind = lines[st.parent].ind + 1 /\ lines[i].key = seg.key}

\* a bug: of several matching siblings the first is taken
ambiguousNever(lines, st, seg) == FALSE

\* duplicate-key handling: a deeper match is ambiguous when the segment
\* matches more than one child of the resolved parent
ambiguous(lines, st, seg) ==
    st.parent # 0 /\ Cardinality(candidates(lines, st, seg)) > 1

\* steps 3 and 5 for one segment: advance the cursor to the first matching
\* line, or stop at the last matched line.  A key=value segment names the
\* object (metadata.name=<release name>); the path after it starts at the
\* top level again, as in the cases of TestEngine_detectHelmLine.
detectCurrentLine(lines, st, seg) ==
    IF candidates(lines, st, seg) = {} \/ ambiguous(lines, st, seg)
    THEN [st EXCEPT !.break = TRUE]
    ELSE LET i == First(candidates(lines, st, seg))
         IN [st EXCEPT !.cur = i, !.found = TRUE,
                       !.parent = IF seg.value THEN 0 ELSE i]

RECURSIVE detectSegments(_, _, _)
detectSegments(lines, st, path) ==
    IF path = <<>> \/ st.break THEN st
    ELSE detectSegments(lines, detectCurrentLine(lines, st, Head(path)), Tail(path))

\* steps 2, 3 and 5: the walk from the marker line through the segments
detectSegmentsFrom(lines, searchKey) ==
    detectSegments(lines,
        [cur |-> markerLine(lines, searchKey.id), parent |-> 0,
         found |-> FALSE, break |-> FALSE],
        searchKey.path)

\* The line of the text the search key leads to: the last matched line, or,
\* when no segment matched, the first line of the marker's sub-document.
detectedLine(lines, searchKey) ==
    LET st == detectSegmentsFrom(lines, searchKey)
    IN IF st.found THEN st.cur ELSE markerLine(lines, searchKey.id) + 1

\* a bug: the marker lines are counted
lineNumberRaw(lines, i) == i

\* step 4: the 1-based number of line i, the injected marker lines not counted
lineNumber(lines, i) ==
    i - Cardinality({j \in 1 .. i : IsMarker(lines[j])})

NoVulnerabilityLines ==
    [Line |-> 0, VulnLine |-> <<>>, LineWithVulnerabilty |-> Ln(0, "")]

\* DetectLine(file, searchKey, log, outputLines) with outputLines = 1
DetectLine(lines, searchKey) ==
    LET i == detectedLine(lines, searchKey)
    IN [Line |-> lineNumber(lines, i),
        VulnLine |-> <<[Position |-> lineNumber(lines, i), Line |-> lines[i]]>>,
        LineWithVulnerabilty |-> lines[i]]

(***************************************************************************)
(* The inputs of DetectLine.                                                *)
(***************************************************************************)
\* TestEngine_detectHelmLine: the Pod manifest up to "spec:", and one
\* "containers:" block
PodLines ==
    <<Ln(0, "apiVersion"), Ln(0, "kind"), Ln(0, "metadata"), Ln(1, "name"),
      Ln(1, "labels"), Ln(2, "include"), Ln(1, "annotations"),
      Ln(2, "helm.sh/hook"), Ln(0, "spec")>>
ContainersLines ==
    <<Ln(1, "containers"), Ln(2, "- name"), Ln(3, "image"), Ln(3, "command"),
      Ln(3, "args"), Ln(2, "restartPolicy")>>

\* "KICS_HELM_ID_<n>.metadata.name={{...}}.spec.containers"
PodSearchKey(n) ==
    [id |-> n,
     path |-> <<Key("metadata"), KeyValue("name"), Key("spec"), Key("containers")>>]

test_detect_helm_line ==
    [lines |-> <<Marker(0)>> \o PodLines \o ContainersLines,
     searchKey |-> PodSearchKey(0)]
test_dup_values ==
    [lines |-> <<Marker(0)>> \o PodLines \o ContainersLines \o ContainersLines,
     searchKey |-> PodSearchKey(0)]
test_detect_helm_with_dups ==
    [lines |-> <<Marker(0)>> \o PodLines \o ContainersLines \o <<Separator>>
                 \o <<Marker(1)>> \o PodLines \o ContainersLines,
     searchKey |-> PodSearchKey(1)]

\* The lines of the bodies TLC enumerates, and the search key used on them.
BodyLines == {Ln(0, "kind"), Ln(0, "spec"), Ln(1, "containers"), Ln(2, "image")}
Bodies == UNION {[1 .. n -> BodyLines] : n \in 1 .. MaxBody}
SpecSearchKey(n) == [id |-> n, path |-> <<Key("spec"), Key("containers")>>]

\* A rendered text: one sub-document, or two, each under its own marker.
DetectInputs ==
    {test_detect_helm_line, test_dup_values, test_detect_helm_with_dups}
    \cup {[lines |-> <<Marker(0)>> \o b, searchKey |-> SpecSearchKey(0)] :
            b \in Bodies}
    \cup {[lines |-> <<Marker(0)>> \o b[1] \o <<Separator, Marker(1)>> \o b[2],
           searchKey |-> SpecSearchKey(n)] :
            b \in Bodies \X Bodies, n \in {0, 1}}

(***************************************************************************)
(* A worker task's locals while it runs a sink.                             *)
(***************************************************************************)
Idle ==
    [pc |-> "idle", sink |-> "none", filename |-> 0, content |-> <<>>,
     kind |-> "none", documents |-> <<>>, err |-> "nil", resFiles |-> <<>>,
     argFiles |-> <<>>, file |-> <<>>, retFiles |-> <<>>,
     renderedFiles |-> [File |-> <<>>, err |-> "none"]]

AllIdle == \A w \in pool : t[w].pc = "idle"

NoCalls ==
    [TrackFileFound |-> 0, SaveFile |-> 0, SaveFileErr |-> 0, TrackFileParse |-> 0,
     getContentErr |-> 0, ParseErr |-> 0, ResolveErr |-> 0, MarshalErr |-> 0,
     documents |-> 0, GetType |-> "none", Resolve |-> 0]

Logged(l, f, op) == [l EXCEPT ![f][op] = l[f][op] + 1]

RECURSIVE DocsOf(_, _)
\* The number of documents the Parser has returned for the files 1 .. f.
DocsOf(l, f) == IF f = 0 THEN 0 ELSE l[f].documents + DocsOf(l, f - 1)

\* The number of documents the Parser may still return in this scan.
DocsLeft == MaxDocs - DocsOf(log, NumFiles)

(***************************************************************************)
(* Init                                                                     *)
(***************************************************************************)
InitGC ==
    /\ rc = <<>>
    /\ gc = getContentInit
    /\ ctx = "active"

InitScan ==
    /\ scanPc = "sources"
    /\ scanRet = "none"
    /\ walk = 1
    /\ route = [f \in Files |-> "none"]
    /\ reader = [f \in Files |-> <<>>]
    /\ sinkRet = [f \in Files |-> "none"]
    /\ log = [f \in Files |-> NoCalls]
    /\ outcome = [GetSources |-> "none", Inspect |-> "none",
                  SaveVulnerabilities |-> "none",
                  InspectCalls |-> 0, SaveVulnerabilitiesCalls |-> 0,
                  SaveVulnerabilitiesArg |-> <<>>]
    /\ files = <<>>
    /\ storage = <<>>
    /\ tracker = [found |-> 0, parsed |-> 0]
    /\ nextID = 1
    /\ t = [w \in Workers |-> Idle]
    /\ inspectArg = "none"
    /\ vulnerabilities = <<>>
    /\ savedVulns = "none"

\* The Source Provider calls the sinks one at a time.
\* No call of DetectLine is under way.
NoDetection ==
    [pc |-> "none", lines |-> <<>>, searchKey |-> [id |-> 0, path |-> <<>>],
     out |-> NoVulnerabilityLines]

Init == InitGC /\ InitScan /\ pool = {1} /\ dl = NoDetection

\* DetectLine is about to be called on one of the inputs.
InitDetect ==
    /\ InitGC /\ InitScan /\ pool = {1}
    /\ dl \in {[pc |-> "call", lines |-> in.lines, searchKey |-> in.searchKey,
                out |-> NoVulnerabilityLines] : in \in DetectInputs}

\* The Source Provider calls the sinks from several worker tasks.
InitConc == InitGC /\ InitScan /\ pool = Workers /\ dl = NoDetection

(***************************************************************************)
(* Operators of service.go.                                                 *)
(***************************************************************************)
\* a bug: the error is dropped
WrapDropped(err, message) == "nil"

\* errors.Wrap(err, message): nil when err is nil
Wrap(err, message) == IF err = "nil" THEN "nil" ELSE message

\* Tracker.TrackFileFound, Tracker.TrackFileParse
trackFileFound(tr) == [tr EXCEPT !.found = tr.found + 1]
trackFileParse(tr) == [tr EXCEPT !.parsed = tr.parsed + 1]

\* a bug: getContent's error is not looked at
contentFailedNever(g) == FALSE

\* line 62: if err != nil, on what getContent returned
contentFailed(g) == g.ret # "nil"

\* lines 67 and 103: if err != nil, on what Parser.Parse returned
parseFailed(res) == res.err # "nil"

\* lines 78-85: the FileMetadata of the parse sink (Content, HelmID and IDInfo
\* are not set: they keep Go's zero values)
parseSinkFile(id, document, content, kind, filename) ==
    [ID |-> id, Document |-> document, OriginalData |-> content, Kind |-> kind,
     FileName |-> <<filename, 0>>, Content |-> <<>>, HelmID |-> "", IDInfo |-> {}]

\* a bug: a file of kind Common is rendered like any other
isCommonNever(kind) == FALSE

\* line 94: if kind == model.KindCOMMON
isCommon(kind) == kind = "COMMON"

\* a bug: the resolve sink builds its record as the parse sink does, without
\* Content, HelmID and IDInfo
resolveSinkFileBare(id, document, rfile, kind) ==
    [ID |-> id, Document |-> document, OriginalData |-> rfile.OriginalData,
     Kind |-> kind, FileName |-> rfile.FileName, Content |-> <<>>,
     HelmID |-> "", IDInfo |-> {}]

\* lines 114-124: the FileMetadata of the resolve sink
resolveSinkFile(id, document, rfile, kind) ==
    [ID |-> id, Document |-> document, OriginalData |-> rfile.OriginalData,
     Kind |-> kind, FileName |-> rfile.FileName, Content |-> rfile.Content,
     HelmID |-> rfile.SplitID, IDInfo |-> rfile.IDInfo]

\* a bug: the record is listed whatever Storage.SaveFile returned
saveToFileAlways(err, file, fs) == Append(fs, file)

\* a bug: the record is appended to a fresh list
saveToFileFresh(err, file, fs) == IF err = "nil" THEN <<file>> ELSE fs

\* lines 180-187: what saveToFile returns, given what Storage.SaveFile returned
saveToFile(err, file, fs) == IF err = "nil" THEN Append(fs, file) ELSE fs

\* Storage.SaveFile: "should append metadata to a file"
SaveFile(st, err, file) == IF err = "nil" THEN Append(st, file) ELSE st

\* The file a FileMetadata was made for.
FileOf(fm) == fm.Document.file

(***************************************************************************)
(* The Source Provider (spec 4.1): it walks the files in order and calls    *)
(* the parse sink or the resolve sink for each, on one of its worker tasks. *)
(***************************************************************************)
CanDeliver(w) ==
    /\ scanPc = "sources"
    /\ walk <= NumFiles
    /\ w \in pool
    /\ t[w].pc = "idle"

(***************************************************************************)
(* The parse sink (service.go 58-90).                                       *)
(***************************************************************************)
\* lines 59-64: TrackFileFound, getContent
ParseSink(w) ==
    /\ CanDeliver(w)
    /\ \E reads \in Readers :
          LET f == walk
              g == getContent(reads)
          IN /\ walk' = walk + 1
             /\ route' = [route EXCEPT ![f] = "parse"]
             /\ reader' = [reader EXCEPT ![f] = reads]
             /\ tracker' = trackFileFound(tracker)
             /\ log' = IF g.ret # "nil"
                       THEN Logged(Logged(log, f, "TrackFileFound"), f, "getContentErr")
                       ELSE Logged(log, f, "TrackFileFound")
             /\ IF contentFailed(g)
                THEN /\ sinkRet' = [sinkRet EXCEPT ![f] = "failed to get file content"]
                     /\ t' = t
                ELSE /\ sinkRet' = sinkRet
                     /\ t' = [t EXCEPT ![w] =
                                [Idle EXCEPT !.pc = "Parse", !.sink = "parse",
                                             !.filename = f, !.content = g.out]]
    /\ UNCHANGED <<ctx, dl, gcVars, scanPc, scanRet, pool, outcome, files, storage, nextID,
                   inspectArg, vulnerabilities, savedVulns>>

\* lines 66-69: Parser.Parse
ParseSinkParse(w) ==
    /\ t[w].pc = "Parse"
    /\ t[w].sink = "parse"
    /\ LET f == t[w].filename IN
       \E res \in ParseResults(f, 0, DocsLeft) :
          /\ log' = IF res.err # "nil" THEN Logged(log, f, "ParseErr")
                    ELSE [log EXCEPT ![f].documents = @ + Len(res.documents)]
          /\ IF parseFailed(res)
             THEN /\ sinkRet' = [sinkRet EXCEPT ![f] = "failed to parse file content"]
                  /\ t' = [t EXCEPT ![w] = Idle]
             ELSE /\ sinkRet' = sinkRet
                  /\ t' = [t EXCEPT ![w].pc = "documents",
                                 ![w].documents = res.documents,
                                 ![w].kind = res.kind,
                                 ![w].err = res.err]
    /\ UNCHANGED <<ctx, dl, gcVars, scanPc, scanRet, pool, walk, route, reader, outcome, files,
                   storage, tracker, nextID, inspectArg, vulnerabilities, savedVulns>>

\* lines 70-86: one document: json.Marshal, the FileMetadata, the call of
\* saveToFile (which reads files as its argument)
ParseSinkDocument(w) ==
    /\ t[w].pc = "documents"
    /\ t[w].sink = "parse"
    /\ t[w].documents # <<>>
    /\ \E err \in Errors :
          IF err # "nil"
          THEN /\ t' = [t EXCEPT ![w].err = err,
                                 ![w].documents = Tail(t[w].documents)]
               /\ log' = Logged(log, t[w].filename, "MarshalErr")
               /\ nextID' = nextID
          ELSE /\ t' = [t EXCEPT ![w].err = err,
                                 ![w].file = parseSinkFile(nextID, Head(t[w].documents),
                                                           t[w].content, t[w].kind,
                                                           t[w].filename),
                                 ![w].argFiles = files,
                                 ![w].pc = "SaveFile"]
               /\ log' = log
               /\ nextID' = nextID + 1
    /\ UNCHANGED <<ctx, dl, gcVars, scanPc, scanRet, pool, walk, route, reader, sinkRet, outcome,
                   files, storage, tracker, inspectArg, vulnerabilities, savedVulns>>

\* line 89: return errors.Wrap(err, "failed to save file content")
ParseSinkReturn(w) ==
    /\ t[w].pc = "documents"
    /\ t[w].sink = "parse"
    /\ t[w].documents = <<>>
    /\ sinkRet' = [sinkRet EXCEPT ![t[w].filename] =
                      Wrap(t[w].err, "failed to save file content")]
    /\ t' = [t EXCEPT ![w] = Idle]
    /\ UNCHANGED <<ctx, dl, gcVars, scanPc, scanRet, pool, walk, route, reader, log, outcome,
                   files, storage, tracker, nextID, inspectArg, vulnerabilities,
                   savedVulns>>

(***************************************************************************)
(* saveToFile (service.go 180-187), called by both sinks.                   *)
(***************************************************************************)
\* line 181: Storage.SaveFile; line 183: the append to the parameter
SaveToFileSave(w) ==
    /\ t[w].pc = "SaveFile"
    /\ \E err \in Errors :
          /\ storage' = SaveFile(storage, err, t[w].file)
          /\ t' = [t EXCEPT ![w].retFiles = saveToFile(err, t[w].file, t[w].argFiles),
                            ![w].pc = IF err = "nil" THEN "TrackFileParse" ELSE "return"]
          /\ log' = IF err = "nil"
                    THEN Logged(log, FileOf(t[w].file), "SaveFile")
                    ELSE Logged(Logged(log, FileOf(t[w].file), "SaveFile"),
                                FileOf(t[w].file), "SaveFileErr")
    /\ UNCHANGED <<ctx, dl, gcVars, scanPc, scanRet, pool, walk, route, reader, sinkRet, outcome,
                   files, tracker, nextID, inspectArg, vulnerabilities, savedVulns>>

\* line 184: Tracker.TrackFileParse
SaveToFileTrack(w) ==
    /\ t[w].pc = "TrackFileParse"
    /\ tracker' = trackFileParse(tracker)
    /\ log' = Logged(log, FileOf(t[w].file), "TrackFileParse")
    /\ t' = [t EXCEPT ![w].pc = "return"]
    /\ UNCHANGED <<ctx, dl, gcVars, scanPc, scanRet, pool, walk, route, reader, sinkRet, outcome,
                   files, storage, nextID, inspectArg, vulnerabilities, savedVulns>>

\* line 186, and the assignment files = s.saveToFile(...) of lines 86 and 125
SaveToFileReturn(w) ==
    /\ t[w].pc = "return"
    /\ files' = t[w].retFiles
    /\ t' = [t EXCEPT ![w].pc = "documents",
                      ![w].documents = Tail(t[w].documents),
                      ![w].file = <<>>, ![w].argFiles = <<>>, ![w].retFiles = <<>>]
    /\ UNCHANGED <<ctx, dl, gcVars, scanPc, scanRet, pool, walk, route, reader, sinkRet, log,
                   outcome, storage, tracker, nextID, inspectArg, vulnerabilities,
                   savedVulns>>

(***************************************************************************)
(* The resolve sink (service.go 91-129).                                    *)
(***************************************************************************)
\* lines 92-100: TrackFileFound, Resolver.GetType, Resolver.Resolve
ResolveSink(w) ==
    /\ CanDeliver(w)
    /\ \E kind \in FileKinds : \E res \in ResolveResults(walk) :
          LET f == walk
          IN /\ walk' = walk + 1
             /\ route' = [route EXCEPT ![f] = "resolve"]
             /\ tracker' = trackFileFound(tracker)
             /\ IF isCommon(kind)
                THEN /\ res.err = "nil" /\ res.File = <<>>
                     /\ sinkRet' = [sinkRet EXCEPT ![f] = "nil"]
                     /\ log' = [Logged(log, f, "TrackFileFound") EXCEPT ![f].GetType = kind]
                     /\ t' = t
                ELSE /\ sinkRet' = sinkRet
                     /\ log' = [(IF res.err # "nil"
                                  THEN Logged(Logged(Logged(log, f, "TrackFileFound"),
                                                     f, "Resolve"), f, "ResolveErr")
                                  ELSE Logged(Logged(log, f, "TrackFileFound"), f, "Resolve"))
                                   EXCEPT ![f].GetType = kind]
                     /\ t' = [t EXCEPT ![w] =
                                [Idle EXCEPT !.pc = IF res.err # "nil" THEN "renderErr"
                                                    ELSE "resFiles",
                                             !.sink = "resolve",
                                             !.filename = f, !.kind = kind,
                                             !.renderedFiles = res,
                                             !.resFiles = res.File]]
    /\ UNCHANGED <<ctx, dl, gcVars, scanPc, scanRet, pool, reader, outcome, files, storage,
                   nextID, inspectArg, vulnerabilities, savedVulns>>

\* lines 98-100: Resolve has failed
ResolveSinkRenderErr(w) ==
    /\ t[w].pc = "renderErr"
    /\ sinkRet' = [sinkRet EXCEPT ![t[w].filename] =
                     Wrap(t[w].renderedFiles.err, "failed to render file content")]
    /\ t' = [t EXCEPT ![w] = Idle]
    /\ UNCHANGED <<ctx, dl, gcVars, scanPc, scanRet, pool, walk, route, reader, log, outcome,
                   files, storage, tracker, nextID, inspectArg, vulnerabilities,
                   savedVulns>>

\* lines 101-105: the next rendered file: Parser.Parse
ResolveSinkParse(w) ==
    /\ t[w].pc = "resFiles"
    /\ t[w].resFiles # <<>>
    /\ LET f == t[w].filename
           rfile == Head(t[w].resFiles)
       IN \E res \in ParseResults(f, rfile.FileName[2], DocsLeft) :
             /\ log' = IF res.err # "nil" THEN Logged(log, f, "ParseErr")
                       ELSE [log EXCEPT ![f].documents = @ + Len(res.documents)]
             /\ IF parseFailed(res)
                THEN /\ sinkRet' = [sinkRet EXCEPT ![f] = "failed to parse file content"]
                     /\ t' = [t EXCEPT ![w] = Idle]
                ELSE /\ sinkRet' = sinkRet
                     /\ t' = [t EXCEPT ![w].pc = "documents",
                                    ![w].documents = res.documents]
    /\ UNCHANGED <<ctx, dl, gcVars, scanPc, scanRet, pool, walk, route, reader, outcome, files,
                   storage, tracker, nextID, inspectArg, vulnerabilities, savedVulns>>

\* lines 106-125: one document of the rendered file (err is the loop's own)
ResolveSinkDocument(w) ==
    /\ t[w].pc = "documents"
    /\ t[w].sink = "resolve"
    /\ t[w].documents # <<>>
    /\ \E err \in Errors :
          IF err # "nil"
          THEN /\ t' = [t EXCEPT ![w].documents = Tail(t[w].documents)]
               /\ log' = Logged(log, t[w].filename, "MarshalErr")
               /\ nextID' = nextID
          ELSE /\ t' = [t EXCEPT ![w].file = resolveSinkFile(nextID, Head(t[w].documents),
                                                             Head(t[w].resFiles),
                                                             t[w].kind),
                                 ![w].argFiles = files,
                                 ![w].pc = "SaveFile"]
               /\ log' = log
               /\ nextID' = nextID + 1
    /\ UNCHANGED <<ctx, dl, gcVars, scanPc, scanRet, pool, walk, route, reader, sinkRet, outcome,
                   files, storage, tracker, inspectArg, vulnerabilities, savedVulns>>

\* line 126-127: the rendered file's documents are done
ResolveSinkNext(w) ==
    /\ t[w].pc = "documents"
    /\ t[w].sink = "resolve"
    /\ t[w].documents = <<>>
    /\ t' = [t EXCEPT ![w].pc = "resFiles", ![w].resFiles = Tail(t[w].resFiles)]
    /\ UNCHANGED <<ctx, dl, gcVars, scanPc, scanRet, pool, walk, route, reader, sinkRet, log,
                   outcome, files, storage, tracker, nextID, inspectArg,
                   vulnerabilities, savedVulns>>

\* line 128: return nil
ResolveSinkReturn(w) ==
    /\ t[w].pc = "resFiles"
    /\ t[w].resFiles = <<>>
    /\ sinkRet' = [sinkRet EXCEPT ![t[w].filename] = "nil"]
    /\ t' = [t EXCEPT ![w] = Idle]
    /\ UNCHANGED <<ctx, dl, gcVars, scanPc, scanRet, pool, walk, route, reader, log, outcome,
                   files, storage, tracker, nextID, inspectArg, vulnerabilities,
                   savedVulns>>

(***************************************************************************)
(* The rest of StartScan (service.go 130-142).                              *)
(***************************************************************************)
\* spec 4.1: GetSources returns once the walk is over and every sink has
\* returned (a sink's error is logged and skipped), or with a walk error.
GetSourcesReturn ==
    /\ scanPc = "sources"
    /\ AllIdle
    /\ \E err \in Errors :
          /\ err = "nil" => walk > NumFiles
          /\ outcome' = [outcome EXCEPT !.GetSources = err]
          /\ scanRet' = IF err = "nil" THEN scanRet
                        ELSE Wrap(err, "failed to read sources")
          /\ scanPc' = IF err = "nil" THEN "inspect" ELSE "done"
    /\ UNCHANGED <<ctx, dl, gcVars, pool, walk, route, reader, sinkRet, log, files, storage,
                   tracker, nextID, t, inspectArg, vulnerabilities, savedVulns>>

\* a bug: Inspect is called without waiting for GetSources to return
InspectEarly ==
    /\ scanPc \in {"sources", "inspect"}
    /\ inspectArg' = files
    /\ \E err \in Errors : \E vs \in VulnLists :
          /\ err # "nil" => vs = <<>>
          /\ outcome' = [outcome EXCEPT !.Inspect = err,
                                        !.InspectCalls = outcome.InspectCalls + 1]
          /\ vulnerabilities' = vs
          /\ scanRet' = IF err = "nil" THEN scanRet
                        ELSE Wrap(err, "failed to inspect files")
          /\ scanPc' = IF err = "nil" THEN "saveVulns" ELSE "done"
    /\ UNCHANGED <<ctx, dl, gcVars, pool, walk, route, reader, sinkRet, log, files, storage,
                   tracker, nextID, t, savedVulns>>

\* lines 134-137: Inspector.Inspect
Inspect ==
    /\ scanPc = "inspect"
    /\ inspectArg' = files
    /\ \E err \in Errors : \E vs \in VulnLists :
          /\ err # "nil" => vs = <<>>
          /\ outcome' = [outcome EXCEPT !.Inspect = err,
                                        !.InspectCalls = outcome.InspectCalls + 1]
          /\ vulnerabilities' = vs
          /\ scanRet' = IF err = "nil" THEN scanRet
                        ELSE Wrap(err, "failed to inspect files")
          /\ scanPc' = IF err = "nil" THEN "saveVulns" ELSE "done"
    /\ UNCHANGED <<ctx, dl, gcVars, pool, walk, route, reader, sinkRet, log, files, storage,
                   tracker, nextID, t, savedVulns>>

\* a bug: errors.New in place of errors.Wrap
startScanReturnNew(err) == "failed to save vulnerabilities"

\* line 141: return errors.Wrap(err, "failed to save vulnerabilities")
startScanReturn(err) == Wrap(err, "failed to save vulnerabilities")

\* lines 139-141: Storage.SaveVulnerabilities
SaveVulnerabilities ==
    /\ scanPc = "saveVulns"
    /\ \E err \in Errors :
          /\ outcome' = [outcome EXCEPT
                            !.SaveVulnerabilities = err,
                            !.SaveVulnerabilitiesCalls = outcome.SaveVulnerabilitiesCalls + 1,
                            !.SaveVulnerabilitiesArg = vulnerabilities]
          /\ savedVulns' = IF err = "nil" THEN vulnerabilities ELSE savedVulns
          /\ scanRet' = startScanReturn(err)
          /\ scanPc' = "done"
    /\ UNCHANGED <<ctx, dl, gcVars, pool, walk, route, reader, sinkRet, log, files, storage,
                   tracker, nextID, t, inspectArg, vulnerabilities>>

(***************************************************************************)
(* The Inspector's call of the Line Detector (spec 4.4, step 3).            *)
(***************************************************************************)
DetectLineCall ==
    /\ dl.pc = "call"
    /\ dl' = [dl EXCEPT !.pc = "done", !.out = DetectLine(dl.lines, dl.searchKey)]
    /\ UNCHANGED <<gcVars, scanVars, ctx>>

(***************************************************************************)
(* Specifications.                                                          *)
(***************************************************************************)
Next ==
    \/ \E w \in Workers : ParseSink(w)
    \/ \E w \in Workers : ParseSinkParse(w)
    \/ \E w \in Workers : ParseSinkDocument(w)
    \/ \E w \in Workers : ParseSinkReturn(w)
    \/ \E w \in Workers : SaveToFileSave(w)
    \/ \E w \in Workers : SaveToFileTrack(w)
    \/ \E w \in Workers : SaveToFileReturn(w)
    \/ \E w \in Workers : ResolveSink(w)
    \/ \E w \in Workers : ResolveSinkRenderErr(w)
    \/ \E w \in Workers : ResolveSinkParse(w)
    \/ \E w \in Workers : ResolveSinkDocument(w)
    \/ \E w \in Workers : ResolveSinkNext(w)
    \/ \E w \in Workers : ResolveSinkReturn(w)
    \/ GetSourcesReturn
    \/ Inspect
    \/ SaveVulnerabilities

NextGC == GCLimit \/ GCRead

NextCancel == GCLimit \/ GCRead \/ Cancel

NextDetect == DetectLineCall

\* StartScan with a Source Provider that calls the sinks one at a time
Spec == Init /\ [][Next]_vars

\* StartScan with a Source Provider that calls the sinks from several tasks
SpecConc == InitConc /\ [][Next]_vars

\* one call of getContent, Read by Read
SpecGC == Init /\ [][NextGC]_vars

\* one call of getContent, Read by Read, under a context the caller may cancel
SpecCancel == Init /\ [][NextCancel]_vars

\* one call of DetectLine on a rendered Helm text
SpecDetect == InitDetect /\ [][NextDetect]_vars

(***************************************************************************)
(* Vocabulary of the properties.                                            *)
(***************************************************************************)
\* The cap the specification states: 5 MiB.
SizeCap == MaxSizeMB * ChunkSize

Range(q) == {q[i] : i \in DOMAIN q}

\* The FileMetadata records the sinks of file f put into a list.
Of(q, f) == {fm \in Range(q) : FileOf(fm) = f}

\* The list Inspect was called with (empty before the call).
Inspected == IF inspectArg = "none" THEN <<>> ELSE inspectArg

\* Every FileMetadata a sink has created: saved, listed, or being saved.
Created ==
    Range(storage) \cup Range(files) \cup Range(Inspected)
        \cup {t[w].file : w \in {v \in Workers : t[v].pc \in {"SaveFile", "TrackFileParse", "return"}}}

\* File f left no FileMetadata anywhere.
NoMetadata(f) == {fm \in Created : FileOf(fm) = f} = {}

\* The parse sink could not read or parse file f.
Unparseable(f) ==
    /\ route[f] = "parse"
    /\ log[f].getContentErr > 0 \/ log[f].ParseErr > 0

\* What Storage accepted from the files the parse sink could read and parse:
\* with the sinks called one at a time, the list a scan of those files alone
\* builds, Storage and the collaborators answering alike.
ScanAlone == SelectSeq(storage, LAMBDA fm : ~Unparseable(FileOf(fm)))

\* Every Read so far returned bytes and no error, or no bytes.
PlainReads == \A i \in DOMAIN rc : rc[i].err = "nil" \/ rc[i].n = 0

(***************************************************************************)
(* C1: getContent rejects a file for its size when and only when the bytes  *)
(* read from it exceed 5 MiB, whatever the Reads return (each between 1     *)
(* byte and 1 MiB, the end of the file as 0 bytes and io.EOF).  The code    *)
(* counts Reads, not bytes: six Reads of one byte each are rejected.        *)
(***************************************************************************)
C1_RejectedIffOverCap ==
    (gc.ret # "running" /\ PlainReads) =>
        ((gc.ret = "errSize") <=> (Delivered(rc) > SizeCap))

(***************************************************************************)
(* C2: with sinks called from several tasks, every FileMetadata that        *)
(* Storage.SaveFile accepted is exactly once in the list given to Inspect.  *)
(* The sinks read and write files without a lock: an update is lost.        *)
(***************************************************************************)
C2_NoLostUpdate ==
    inspectArg # "none" =>
        \A i \in DOMAIN storage :
            Cardinality({j \in DOMAIN inspectArg : inspectArg[j] = storage[i]}) = 1

(***************************************************************************)
(* C3, as claimed: StartScan returns nil whenever GetSources and Inspect    *)
(* returned without error.                                                  *)
(***************************************************************************)
C3_NilIfSourcesAndInspectOk ==
    (scanPc = "done" /\ outcome.GetSources = "nil" /\ outcome.Inspect = "nil")
        => scanRet = "nil"

(***************************************************************************)
(* C3, amended: StartScan returns nil whenever GetSources, Inspect and      *)
(* SaveVulnerabilities all returned without error, whatever the sinks       *)
(* returned and whatever Storage.SaveFile returned.                         *)
(***************************************************************************)
C3_NilIfPipelineOk ==
    (/\ scanPc = "done"
     /\ outcome.GetSources = "nil"
     /\ outcome.Inspect = "nil"
     /\ outcome.SaveVulnerabilities = "nil")
        => scanRet = "nil"

C3_Witness ==
    /\ scanPc = "done"
    /\ outcome.SaveVulnerabilities = "nil"
    /\ scanRet = "nil"
    /\ \E f \in Files : sinkRet[f] \notin {"none", "nil"}
    /\ \E f \in Files : log[f].SaveFileErr > 0

(***************************************************************************)
(* C4: a sink whose Storage.SaveFile failed returns a non-nil error.        *)
(* saveToFile drops the error, and the sink returns nil.                    *)
(***************************************************************************)
C4_SaveFileErrorPropagated ==
    \A f \in Files :
        (sinkRet[f] # "none" /\ log[f].SaveFileErr > 0) => sinkRet[f] # "nil"

(***************************************************************************)
(* C5: when the resolve sink fails for a chart (Resolve fails, or Parse     *)
(* fails on one rendered file), no FileMetadata of the chart is saved or    *)
(* listed.  The rendered files before the failing one are already saved.    *)
(***************************************************************************)
C5_ChartAllOrNothing ==
    \A f \in Files :
        (/\ route[f] = "resolve"
         /\ sinkRet[f] \in {"failed to render file content",
                            "failed to parse file content"})
            => NoMetadata(f)

(***************************************************************************)
(* C6: a file the parse sink could not read or parse leaves no              *)
(* FileMetadata: SaveFile and TrackFileParse are not called for it, it is   *)
(* in no list, and its sink returned a non-nil error.                       *)
(***************************************************************************)
C6_UnparseableFileSkipped ==
    \A f \in Files :
        Unparseable(f) =>
            /\ sinkRet[f] \notin {"none", "nil"}
            /\ log[f].SaveFile = 0
            /\ log[f].TrackFileParse = 0
            /\ NoMetadata(f)

C6_Witness ==
    /\ inspectArg # "none"
    /\ \E f \in Files : route[f] = "parse" /\ log[f].getContentErr > 0
    /\ \E f \in Files : route[f] = "parse" /\ log[f].ParseErr > 0

C8_OversizeFileSkipped ==
    /\ \A f \in Files :
          (route[f] = "parse" /\ Delivered(reader[f]) > SizeCap) => NoMetadata(f)
    /\ \A w \in Workers : Sum(t[w].content) <= SizeCap + ChunkSize

(***************************************************************************)
(* C9: TrackFileFound is called once per file given to a sink and           *)
(* TrackFileParse at most once, so the parsed count never exceeds the       *)
(* found count.  TrackFileParse is called once per saved document.          *)
(***************************************************************************)
C9_ParsedAtMostFound ==
    /\ \A f \in Files :
          /\ route[f] # "none" => log[f].TrackFileFound = 1
          /\ log[f].TrackFileParse <= 1
    /\ tracker.parsed <= tracker.found

(***************************************************************************)
(* C10, as claimed: a FileMetadata of the parse sink has Content equal to   *)
(* OriginalData, and OriginalData equal to the bytes read from the file.    *)
(***************************************************************************)
C10_ContentIsOriginalData ==
    \A fm \in Created :
        route[FileOf(fm)] = "parse" =>
            /\ fm.Content = fm.OriginalData
            /\ fm.OriginalData = Chunks(reader[FileOf(fm)])

(***************************************************************************)
(* C10, amended: a FileMetadata of the parse sink has an empty Content, and *)
(* its OriginalData is what getContent returned: the bytes, in order, of    *)
(* the Reads that returned no error.                                        *)
(***************************************************************************)
C10_ParseSinkMetadata ==
    \A fm \in Created :
        route[FileOf(fm)] = "parse" =>
            /\ fm.Content = <<>>
            /\ fm.OriginalData =
                  Chunks(SelectSeq(reader[FileOf(fm)], LAMBDA rd : rd.err = "nil"))

C10_Witness ==
    \E fm \in Range(Inspected) :
        /\ route[FileOf(fm)] = "parse"
        /\ Len(fm.OriginalData) = MaxSizeMB
        /\ Delivered(reader[FileOf(fm)]) > Sum(fm.OriginalData)

\* The rendered file a record of the resolve sink was built from: the
\* document's rfile-th entry of what Resolver.Resolve returned for its chart.
RenderedOf(fm) == RenderedFile(fm.Document.file, fm.Document.rfile)

\* The records StartScan has saved or has passed to the Inspector.
SavedOrInspected == Range(storage) \cup Range(Inspected)

\* C11 (as stated): every FileMetadata that StartScan saves or passes to the
\* Inspector with Kind = Helm has a non-empty HelmID and a non-empty IDInfo,
\* whatever RenderedFiles the Resolver returned without error.
C11_HelmHasHelmIDAndIDInfo ==
    \A fm \in SavedOrInspected :
        fm.Kind = "HELM" => fm.HelmID # "" /\ fm.IDInfo # {}

\* C11 (amended): every FileMetadata that StartScan saves or passes to the
\* Inspector with Kind = Helm carries, unchanged, the SplitID of the rendered
\* file it was built from as its HelmID, which is non-empty, and that rendered
\* file's IDInfo as its IDInfo, which is empty when the Resolver returned none.
C11_HelmCarriesRenderedIDs ==
    \A fm \in SavedOrInspected :
        fm.Kind = "HELM" =>
            /\ fm.HelmID = RenderedOf(fm).SplitID
            /\ fm.HelmID # ""
            /\ fm.IDInfo = RenderedOf(fm).IDInfo

\* A Helm record without IDInfo and one with IDInfo have reached the Inspector.
C11_Witness ==
    /\ \E fm \in Range(Inspected) : fm.Kind = "HELM" /\ fm.IDInfo = {}
    /\ \E fm \in Range(Inspected) : fm.Kind = "HELM" /\ fm.IDInfo # {}

\* Every sink the Source Provider called has returned.
SinksFinished == AllIdle /\ \A f \in Files : route[f] # "none" => sinkRet[f] # "none"

\* C12: Inspect is called at most once, only after GetSources has returned
\* without error, when every sink has finished, and with the file list as the
\* sinks left it; SaveVulnerabilities is called at most once, only after
\* Inspect has returned without error, and with exactly the vulnerabilities
\* Inspect returned.
C12_PipelineOrder ==
    /\ outcome.InspectCalls <= 1
    /\ outcome.SaveVulnerabilitiesCalls <= 1
    /\ outcome.InspectCalls > 0 =>
          /\ outcome.GetSources = "nil"
          /\ SinksFinished
          /\ inspectArg = files
    /\ outcome.SaveVulnerabilitiesCalls > 0 =>
          /\ outcome.InspectCalls > 0
          /\ outcome.Inspect = "nil"
          /\ outcome.SaveVulnerabilitiesArg = vulnerabilities

\* SaveVulnerabilities has been called with a vulnerability Inspect found in a
\* list of two records.
C12_Witness ==
    /\ outcome.SaveVulnerabilitiesCalls = 1
    /\ outcome.SaveVulnerabilitiesArg # <<>>
    /\ inspectArg # "none"
    /\ Len(Inspected) = 2

\* StartScan has returned an error.
ScanFailed == scanPc = "done" /\ scanRet \notin {"nil", "none"}

\* C13: when GetSources returns an error, StartScan returns an error and never
\* calls Inspect or SaveVulnerabilities; when Inspect returns an error,
\* StartScan returns an error and never calls SaveVulnerabilities; when
\* SaveVulnerabilities returns an error, StartScan returns an error.
C13_PipelineErrors ==
    /\ outcome.GetSources = "err" =>
          /\ ScanFailed /\ scanRet = "failed to read sources"
          /\ outcome.InspectCalls = 0 /\ inspectArg = "none"
          /\ outcome.SaveVulnerabilitiesCalls = 0 /\ savedVulns = "none"
    /\ outcome.Inspect = "err" =>
          /\ ScanFailed /\ scanRet = "failed to inspect files"
          /\ outcome.SaveVulnerabilitiesCalls = 0 /\ savedVulns = "none"
    /\ outcome.SaveVulnerabilities = "err" =>
          /\ ScanFailed /\ scanRet = "failed to save vulnerabilities"

\* Inspect has failed on a list of saved records and StartScan has returned.
C13_Witness ==
    /\ outcome.Inspect = "err"
    /\ scanPc = "done"
    /\ Len(storage) > 0

\* C14 (chunk reads): once the context is cancelled, the in-flight getContent
\* starts no further Read on the file's reader.
C14_NoReadAfterCancel == [][ctx = "cancelled" => rc' = rc]_vars

\* The text without the injected marker lines.
Unmarked(lines) == SelectSeq(lines, LAMBDA l : ~IsMarker(l))

\* The number line i has in the text without the marker lines.
UnmarkedNumber(lines, i) == Len(Unmarked(SubSeq(lines, 1, i)))

\* The line of the text that has number n once the marker lines are left out.
RawLine(lines, n) ==
    First({i \in DOMAIN lines : ~IsMarker(lines[i]) /\ UnmarkedNumber(lines, i) = n})

\* The sub-document of the marker at line m: the lines after it up to the
\* next marker.
SubDocument(lines, m) ==
    {i \in DOMAIN lines : i > m /\ \A j \in (m + 1) .. i : ~IsMarker(lines[j])}

\* The search key without its last segment, and its last segment.
ParentKey(searchKey) ==
    [searchKey EXCEPT !.path = SubSeq(searchKey.path, 1, Len(searchKey.path) - 1)]
LastSegment(searchKey) == searchKey.path[Len(searchKey.path)]

\* Line p is the parent the walk has resolved for the key's last segment, and
\* more than one of its children matches that segment.
DuplicateUnder(lines, searchKey, p) ==
    LET st == detectSegmentsFrom(lines, ParentKey(searchKey))
    IN /\ ~st.break /\ st.found /\ st.parent = p
       /\ Cardinality({i \in scope(lines, p) :
                          /\ lines[i].ind = lines[p].ind + 1
                          /\ lines[i].key = LastSegment(searchKey).key}) > 1

\* C15: when the last segment of the search key matches more than one child
\* of the resolved parent, DetectLine returns the parent's line as Line,
\* VulnLine and LineWithVulnerabilty; and every result names a line of the
\* text.
C15_DuplicateKeyFallback ==
    dl.pc = "done" =>
        /\ dl.out.Line \in 1 .. Len(Unmarked(dl.lines))
        /\ dl.out.LineWithVulnerabilty = Unmarked(dl.lines)[dl.out.Line]
        /\ dl.out.VulnLine =
              <<[Position |-> dl.out.Line, Line |-> dl.out.LineWithVulnerabilty]>>
        /\ \A p \in DOMAIN dl.lines :
              DuplicateUnder(dl.lines, dl.searchKey, p) =>
                  /\ dl.out.Line = UnmarkedNumber(dl.lines, p)
                  /\ dl.out.LineWithVulnerabilty = dl.lines[p]

\* test_dup_values: two "containers:" under one "spec:" give line 9, "spec:".
C15_Witness ==
    /\ dl.pc = "done"
    /\ dl.lines = test_dup_values.lines
    /\ \E p \in DOMAIN dl.lines : DuplicateUnder(dl.lines, dl.searchKey, p)
    /\ dl.out.Line = 9
    /\ dl.out.LineWithVulnerabilty = Ln(0, "spec")

\* A search key of bare segments only.
BareKey(searchKey) == \A i \in DOMAIN searchKey.path : ~searchKey.path[i].value

\* The sub-document holds the key's first segment at its top level.
HoldsFirstSegment(lines, searchKey, m) ==
    \E i \in SubDocument(lines, m) :
        lines[i].ind = 0 /\ lines[i].key = searchKey.path[1].key

Resolved(w) == t[w].renderedFiles

InSaveToFile(w) == t[w].pc \in {"SaveFile", "TrackFileParse", "return"}

RECURSIVE CallsUpTo(_, _)
\* The number of calls of op the sinks of the files 1 .. f have made.
CallsUpTo(op, f) == IF f = 0 THEN 0 ELSE log[f][op] + CallsUpTo(op, f - 1)
Calls(op) == CallsUpTo(op, NumFiles)

\* C18: with the sinks called one at a time, whenever no saveToFile is under
\* way the file list holds exactly the records for which SaveFile returned no
\* error, in the order they were saved, and as many records as TrackFileParse
\* was called; a record whose SaveFile failed is in neither the list nor the
\* parsed count.
C18_FileListIsSavedRecords ==
    /\ (\A w \in pool : ~InSaveToFile(w)) =>
          /\ files = storage
          /\ Len(files) = Calls("SaveFile") - Calls("SaveFileErr")
          /\ Len(files) = Calls("TrackFileParse")
          /\ Len(files) = tracker.parsed
    /\ \A w \in pool :
          t[w].pc = "return" /\ t[w].file \notin Range(storage) =>
              /\ t[w].file \notin Range(t[w].retFiles)
              /\ tracker.parsed = Len(storage)

\* Two documents have gone through saveToFile: SaveFile failed on one and
\* stored the other, and the sink is between two saves.
C18_Witness ==
    /\ \A w \in pool : ~InSaveToFile(w)
    /\ Calls("SaveFileErr") = 1
    /\ Calls("SaveFile") = 2
    /\ Len(files) = 1

\* The sink of file f has returned, and json.Marshal failed on exactly one of
\* the several documents the Parser returned for the file.
OneMarshalFailure(f) ==
    /\ sinkRet[f] # "none"
    /\ log[f].documents > 1
    /\ log[f].MarshalErr = 1

\* C19: when json.Marshal fails on one document of a multi-document file, the
\* sink, parse or resolve, skips that document only, saves the others, and
\* returns no error, wherever the failing document stands in the file.
C19_MarshalFailureSkipped ==
    \A f \in Files :
        OneMarshalFailure(f) /\ log[f].ParseErr = 0 =>
            /\ sinkRet[f] = "nil"
            /\ log[f].SaveFile = log[f].documents - 1

\* C20: when getContent succeeds, the content it returns is the in-order
\* concatenation of all bytes the reader delivered, also when the final Read
\* returned bytes together with io.EOF; when it fails, it returns an empty
\* content, never a prefix of the file.
C20_ContentIsAllBytesRead ==
    /\ gc.ret = "nil" => gc.out = Chunks(rc)
    /\ gc.ret \in {"errSize", "errRead"} => gc.out = <<>>

\* File f went to the resolve sink and Resolver.GetType returned Common.
CommonFile(f) == route[f] = "resolve" /\ log[f].GetType = "COMMON"

\* C21: for a file given to the resolve sink whose kind is Common, the sink
\* has returned nil and has called TrackFileFound once and nothing else: no
\* Resolve, no Parse, no SaveFile, no TrackFileParse; no task runs a sink for
\* the file, and no record of the file is in Storage, in the file list or on
\* its way there.
C21_CommonFileSkipped ==
    \A f \in Files :
        CommonFile(f) =>
            /\ sinkRet[f] = "nil"
            /\ log[f] = [NoCalls EXCEPT !.TrackFileFound = 1, !.GetType = "COMMON"]
            /\ \A w \in Workers : t[w].filename # f
            /\ NoMetadata(f)
            /\ tracker.found >= 1
            /\ tracker.parsed = Calls("TrackFileParse") - log[f].TrackFileParse

\* A Common file has gone through the resolve sink after another file left a
\* record in the file list, and the list still holds that record alone.
C21_Witness ==
    /\ CommonFile(2)
    /\ sinkRet[2] = "nil"
    /\ Len(files) = 1
    /\ tracker = [found |-> 2, parsed |-> 1]

====
